---- MODULE Spec2Model ----
(***************************************************************************)
(* Model of pyymw16/ne2001_wrapper.py: the run_from_pkgdir decorator, the  *)
(* three functions it wraps (dm_to_dist, dist_to_dm,                       *)
(* calculate_electron_density_xyz) and test_density.  The two f2py         *)
(* routines (dmdsm.dmdsm, density.density_2001) are external: the model    *)
(* records the arguments they receive and lets them return any value of    *)
(* a small set.                                                            *)
(***************************************************************************)
EXTENDS Integers, Sequences, FiniteSets, TLC

\* ------------------------------------------------------------------ bounds
\* longest list given as the dm / dist argument
MaxLen == 2
\* number of calls the single caller of Spec makes one after the other
MaxCalls == 2

\* ------------------------------------------------------- program constants
Nx == 1000
Ny == 1000
\* 24 significant bits of an IEEE-754 binary32 (dtype='float32')
F32Mantissa == 16777216

DATA_PATH == "/site-packages/pyymw16"
Dirs == {DATA_PATH, "/home/user", "/tmp"}

Threads == {"t1", "t2"}

\* names bound at module level when a function body runs
ModuleGlobals ==
    {"np", "os", "wraps", "u", "dmdsm", "density", "DATA_PATH",
     "run_from_pkgdir", "dm_to_dist", "dist_to_dm",
     "calculate_electron_density_xyz", "test_dm", "test_density"}

Wrapped == {"dm_to_dist", "dist_to_dm", "calculate_electron_density_xyz"}

\* ------------------------------------------------------------ python values
\* A number-like Python value: a float, a list of floats, a 0-d or 1-d array.
PyFloat(v) == [kind |-> "float", data |-> <<v>>]
PyList(s) == [kind |-> "list", data |-> s]
NoValue == [kind |-> "unset", data |-> <<>>]

\* A value with a unit (astropy Quantity).
Quantity(v, unit) == [value |-> v, unit |-> unit]

\* What a call hands back: None, one Quantity, or a tuple of Quantities.
PyNone == [kind |-> "None", items |-> <<>>]
PyQuantity(q) == [kind |-> "Quantity", items |-> <<q>>]
PyTuple(qs) == [kind |-> "tuple", items |-> qs]

Abs(n) == IF n < 0 THEN -n ELSE n

RECURSIVE GCD(_, _)
GCD(a, b) == IF b = 0 THEN a ELSE GCD(b, a % b)

\* An angle in radians, kept exactly as the fraction num/den of pi.
Pi == [num |-> 1, den |-> 1]
NoAngle == [num |-> 0, den |-> 0]

\* np.deg2rad(x): x * pi / 180
Deg2RadNoConversion(x) == [num |-> x, den |-> 1]
Deg2Rad(x) ==
    LET g == GCD(Abs(x), 180)
    IN  [num |-> x \div g, den |-> 180 \div g]

\* Rounding of an integer-valued double to float32: round to nearest, ties to
\* even, on a 24-bit significand.
RECURSIVE F32Ulp(_, _)
F32Ulp(a, p) == IF a < F32Mantissa * p THEN p ELSE F32Ulp(a, 2 * p)

Float32(n) ==
    LET a == Abs(n)
        p == F32Ulp(a, 1)
        q == a \div p
        rem == a % p
        up == (2 * rem > p) \/ (2 * rem = p /\ q % 2 = 1)
        m == (IF up THEN q + 1 ELSE q) * p
    IN  IF n < 0 THEN -m ELSE m

\* np.array(v, dtype='float32'): a float gives a 0-d array, a list a 1-d array
NpArrayFloat32(v) ==
    [kind |-> IF v.kind = "float" THEN "0d" ELSE "1d",
     data |-> [i \in 1..Len(v.data) |-> Float32(v.data[i])]]

\* np.zeros_like(a)
ZerosLike(a) == [kind |-> a.kind, data |-> [i \in 1..Len(a.data) |-> 0]]

\* number of elements of an array
Size(a) == Len(a.data)

\* the array with its (single) element set to v; an array of another size is
\* handed back for the routine to fill its first element, if it has one
Store(a, v) ==
    [kind |-> a.kind,
     data |-> [i \in 1..Len(a.data) |-> IF i = 1 THEN v ELSE a.data[i]]]

RECURSIVE SumSeq(_)
SumSeq(s) == IF s = <<>> THEN 0 ELSE Head(s) + SumSeq(Tail(s))

\* np.sum(ne_out[:7])
SumFirstEight(ne_out) == SumSeq(SubSeq(ne_out, 1, 8))
SumFirstSeven(ne_out) == SumSeq(SubSeq(ne_out, 1, 7))

\* ------------------------------------------------------------------ inputs
LVals == {0, 180}
BVals == {0, 45}
XYZVals == {0, 1}

\* a list of n floats
ListOf(n) == [i \in 1..n |-> 10 * i]

DmInputs ==
    {PyFloat(10), PyFloat(F32Mantissa + 1)} \cup {PyList(ListOf(n)) : n \in 0..MaxLen}

\* a call site: positional arguments and keyword arguments (name, value pairs)
Positional(fn, a) == [fn |-> fn, args |-> a, kwargs |-> {}]
Keyword(fn, names, a) ==
    [fn |-> fn, args |-> <<>>, kwargs |-> {<<names[i], a[i]>> : i \in 1..Len(a)}]

ParamNames(fn) ==
    CASE fn = "dm_to_dist" -> <<"l", "b", "dm">>
      [] fn = "dist_to_dm" -> <<"l", "b", "dist">>
      [] OTHER -> <<"x", "y", "z">>

ArgTuples(fn) ==
    IF fn = "calculate_electron_density_xyz"
    THEN {<<x, y, z>> : x \in XYZVals, y \in XYZVals, z \in XYZVals}
    ELSE {<<l, b, v>> : l \in LVals, b \in BVals, v \in DmInputs}

AllCalls ==
    UNION {{Positional(fn, a) : a \in ArgTuples(fn)}
           \cup {Keyword(fn, ParamNames(fn), a) : a \in ArgTuples(fn)} : fn \in Wrapped}

\* the calls two concurrent callers choose from
ConcCalls ==
    {Positional("dm_to_dist", <<180, 0, PyFloat(10)>>),
     Keyword("dist_to_dm", ParamNames("dist_to_dm"), <<180, 45, PyFloat(10)>>),
     Positional("calculate_electron_density_xyz", <<1, 0, 0>>)}

NoCall == [fn |-> "none", args |-> <<>>, kwargs |-> {}]

\* Python's binding of a call's arguments to the parameters of f
Bind(args, kwargs, names) ==
    [i \in 1..Len(names) |->
        IF i <= Len(args) THEN args[i]
        ELSE (CHOOSE p \in kwargs : p[1] = names[i])[2]]

\* ------------------------------------------------------- external routines
\* limit, sm, smtau, smtheta, smiso
DmdsmReturns == {<<" ", 1, 2, 3, 4>>, <<">", 5, 6, 7, 8>>}
\* what dmdsm may leave in an in/output buffer, besides what it held
DmdsmWrites == {3}
NoReturn == <<>>

\* the 23 outputs of density_2001: one output set to 1, or all of them
DensityReturns ==
    {[i \in 1..23 |-> IF i = k THEN 1 ELSE 0] : k \in 1..23}
    \cup {[i \in 1..23 |-> i]}

\* ------------------------------------------------------------------- state
VARIABLES
    cwd,        \* the process's working directory (os.getcwd / os.chdir)
    cwd0,       \* the working directory before any call started
    callset,    \* the call sites the callers choose from
    calls_left, \* per caller: calls it may still start
    pc,         \* per caller: the source line it is at, or idle/returned/raised
    call,       \* per caller: the call in progress (function, args, kwargs)
    cwdpath,    \* wrapped: local cwdpath (line 87)
    r,          \* wrapped: local r (line 89)
    result,     \* what the caller received from wrapped (line 91)
    exc,        \* the exception that reached the caller
    f_args,     \* the positional arguments f received (line 89)
    f_kwargs,   \* the keyword arguments f received (line 89)
    fcalls,     \* how many times wrapped invoked f during the call
    f_ret,      \* what f returned
    dm,         \* local dm of dm_to_dist / dist_to_dm
    dist,       \* local dist of dm_to_dist / dist_to_dm
    l_rad,      \* local l_rad
    b_rad,      \* local b_rad
    ndir,       \* local ndir
    smtau,      \* local smtau (line 108 / 126)
    ne_out,     \* local ne_out (line 140)
    ext_log,    \* per caller: the calls of the external routines made during
                \* the call, each with its arguments, the working directory
                \* it ran in, what it returned and what it left in its buffers
    overlapped, \* some call started while another caller's call was in progress
    td          \* test_density: loop position, cells filled, image saved

vars ==
    <<cwd, cwd0, callset, calls_left, pc, call, cwdpath, r, result, exc, f_args,
      f_kwargs, fcalls, f_ret, dm, dist, l_rad, b_rad, ndir, smtau, ne_out,
      ext_log, overlapped, td>>

wrapperLocals == <<cwdpath, r, result>>
fObserved == <<f_args, f_kwargs, fcalls, f_ret>>
fLocals == <<dm, dist, l_rad, b_rad, ndir, smtau, ne_out>>
setup == <<cwd0, callset, calls_left>>

\* a caller is at rest when no call of its own is in progress
Rest == {"idle", "returned", "raised"}

NoTd == [ii |-> 0, jj |-> 0, filled |-> 0, saved |-> FALSE]

\* the parameters of f as bound from what it received
Param(t, i) == Bind(f_args[t], f_kwargs[t], ParamNames(call[t].fn))[i]

InitCommon ==
    /\ cwd \in Dirs
    /\ cwd0 = cwd
    /\ pc = [t \in Threads |-> "idle"]
    /\ call = [t \in Threads |-> NoCall]
    /\ cwdpath = [t \in Threads |-> ""]
    /\ r = [t \in Threads |-> PyNone]
    /\ result = [t \in Threads |-> PyNone]
    /\ exc = [t \in Threads |-> ""]
    /\ f_args = [t \in Threads |-> <<>>]
    /\ f_kwargs = [t \in Threads |-> {}]
    /\ fcalls = [t \in Threads |-> 0]
    /\ f_ret = [t \in Threads |-> PyNone]
    /\ dm = [t \in Threads |-> NoValue]
    /\ dist = [t \in Threads |-> NoValue]
    /\ l_rad = [t \in Threads |-> NoAngle]
    /\ b_rad = [t \in Threads |-> NoAngle]
    /\ ndir = [t \in Threads |-> 0]
    /\ smtau = [t \in Threads |-> 0]
    /\ ne_out = [t \in Threads |-> NoReturn]
    /\ ext_log = [t \in Threads |-> <<>>]
    /\ overlapped = FALSE
    /\ td = [t \in Threads |-> NoTd]

\* the module as written: single-threaded, one caller making calls in turn
Init ==
    /\ InitCommon
    /\ callset = AllCalls
    /\ calls_left = [t \in Threads |-> IF t = "t1" THEN MaxCalls ELSE 0]

\* two callers each making one call at the same time
InitConc ==
    /\ InitCommon
    /\ callset = ConcCalls
    /\ calls_left = [t \in Threads |-> 1]

\* ------------------------------------------------------ run_from_pkgdir
\* a caller starts a call of a wrapped function: wrapped(*args, **kwargs)
StartCall(t, c) ==
    /\ pc[t] \in Rest
    /\ calls_left[t] > 0
    /\ calls_left' = [calls_left EXCEPT ![t] = @ - 1]
    /\ pc' = [pc EXCEPT ![t] = "l87"]
    /\ call' = [call EXCEPT ![t] = c]
    /\ cwdpath' = [cwdpath EXCEPT ![t] = ""]
    /\ r' = [r EXCEPT ![t] = PyNone]
    /\ result' = [result EXCEPT ![t] = PyNone]
    /\ exc' = [exc EXCEPT ![t] = ""]
    /\ f_args' = [f_args EXCEPT ![t] = <<>>]
    /\ f_kwargs' = [f_kwargs EXCEPT ![t] = {}]
    /\ fcalls' = [fcalls EXCEPT ![t] = 0]
    /\ f_ret' = [f_ret EXCEPT ![t] = PyNone]
    /\ dm' = [dm EXCEPT ![t] = NoValue]
    /\ dist' = [dist EXCEPT ![t] = NoValue]
    /\ l_rad' = [l_rad EXCEPT ![t] = NoAngle]
    /\ b_rad' = [b_rad EXCEPT ![t] = NoAngle]
    /\ ndir' = [ndir EXCEPT ![t] = 0]
    /\ smtau' = [smtau EXCEPT ![t] = 0]
    /\ ne_out' = [ne_out EXCEPT ![t] = NoReturn]
    /\ ext_log' = [ext_log EXCEPT ![t] = <<>>]
    /\ td' = [td EXCEPT ![t] = NoTd]
    /\ overlapped' = (overlapped \/ \E u \in Threads \ {t} : pc[u] \notin Rest)
    /\ UNCHANGED <<cwd, cwd0, callset>>

Call(t) == \E c \in callset : StartCall(t, c)

\* line 87: cwdpath = os.getcwd()
GetCwd(t) ==
    /\ pc[t] = "l87"
    /\ cwdpath' = [cwdpath EXCEPT ![t] = cwd]
    /\ pc' = [pc EXCEPT ![t] = "l88"]
    /\ UNCHANGED <<cwd, setup, call, r, result, exc, fObserved, fLocals, ext_log,
                   overlapped, td>>

\* line 88: os.chdir(DATA_PATH)
ChdirPkgSkipped(t) ==
    /\ pc[t] = "l88"
    /\ pc' = [pc EXCEPT ![t] = "l89"]
    /\ UNCHANGED <<cwd, setup, call, wrapperLocals, exc, fObserved, fLocals,
                   ext_log, overlapped, td>>

ChdirPkg(t) ==
    /\ pc[t] = "l88"
    /\ cwd' = DATA_PATH
    /\ pc' = [pc EXCEPT ![t] = "l89"]
    /\ UNCHANGED <<setup, call, wrapperLocals, exc, fObserved, fLocals, ext_log,
                   overlapped, td>>

\* the first line of the body of each wrapped function
Entry(fn) ==
    CASE fn = "dm_to_dist" -> "f103"
      [] fn = "dist_to_dm" -> "f121"
      [] OTHER -> "f140"

\* line 89: f(*args, **kwargs) is entered
InvokeF(t) ==
    /\ pc[t] = "l89"
    /\ f_args' = [f_args EXCEPT ![t] = call[t].args]
    /\ f_kwargs' = [f_kwargs EXCEPT ![t] = call[t].kwargs]
    /\ fcalls' = [fcalls EXCEPT ![t] = @ + 1]
    /\ pc' = [pc EXCEPT ![t] = Entry(call[t].fn)]
    /\ UNCHANGED <<cwd, setup, call, wrapperLocals, exc, f_ret, fLocals, ext_log,
                   overlapped, td>>

\* line 90: os.chdir(cwdpath)
RestoreSkipped(t) ==
    /\ pc[t] = "l90"
    /\ pc' = [pc EXCEPT ![t] = "l91"]
    /\ UNCHANGED <<cwd, setup, call, wrapperLocals, exc, fObserved, fLocals,
                   ext_log, overlapped, td>>

Restore(t) ==
    /\ pc[t] = "l90"
    /\ cwd' = cwdpath[t]
    /\ pc' = [pc EXCEPT ![t] = "l91"]
    /\ UNCHANGED <<setup, call, wrapperLocals, exc, fObserved, fLocals, ext_log,
                   overlapped, td>>

\* line 91: return r
ReturnNone(t) ==
    /\ pc[t] = "l91"
    /\ result' = [result EXCEPT ![t] = PyNone]
    /\ pc' = [pc EXCEPT ![t] = "returned"]
    /\ UNCHANGED <<cwd, setup, call, cwdpath, r, exc, fObserved, fLocals, ext_log,
                   overlapped, td>>

Return(t) ==
    /\ pc[t] = "l91"
    /\ result' = [result EXCEPT ![t] = r[t]]
    /\ pc' = [pc EXCEPT ![t] = "returned"]
    /\ UNCHANGED <<cwd, setup, call, cwdpath, r, exc, fObserved, fLocals, ext_log,
                   overlapped, td>>

\* an exception raised in f leaves wrapped at line 89 and reaches the caller:
\* wrapped has no try/finally, so lines 90 and 91 do not run
Raise(t, e) ==
    /\ pc' = [pc EXCEPT ![t] = "raised"]
    /\ exc' = [exc EXCEPT ![t] = e]

\* ------------------------------------------------ dmdsm.dmdsm (f2py routine)
\* limit,sm,smtau,smtheta,smiso = dmdsm(l,b,ndir,dmpsr,dist), dmpsr and dist
\* being in/output rank-0 arrays.  The routine is called with `a`; it either
\* returns some tuple and leaves each buffer as it was or overwritten, or,
\* given a buffer that does not hold exactly one element, may raise instead.
DmdsmCall(t, a, next) ==
    \/ /\ Size(a[4]) # 1 \/ Size(a[5]) # 1
       /\ ext_log' = [ext_log EXCEPT ![t] = Append(@,
              [routine |-> "dmdsm", args |-> a, cwd |-> cwd, raised |-> TRUE,
               ret |-> NoReturn, dmpsr |-> a[4], dist |-> a[5]])]
       /\ Raise(t, "f2py: cannot convert argument")
       /\ UNCHANGED <<dm, dist, smtau>>
    \/ \E ret \in DmdsmReturns :
       \E dmpsr_out \in {a[4]} \cup {Store(a[4], w) : w \in DmdsmWrites} :
       \E dist_out \in {a[5]} \cup {Store(a[5], w) : w \in DmdsmWrites} :
          /\ ext_log' = [ext_log EXCEPT ![t] = Append(@,
                 [routine |-> "dmdsm", args |-> a, cwd |-> cwd, raised |-> FALSE,
                  ret |-> ret, dmpsr |-> dmpsr_out, dist |-> dist_out])]
          /\ dm' = [dm EXCEPT ![t] = dmpsr_out]
          /\ dist' = [dist EXCEPT ![t] = dist_out]
          /\ smtau' = [smtau EXCEPT ![t] = ret[3]]
          /\ pc' = [pc EXCEPT ![t] = next]
          /\ UNCHANGED exc

\* float(a): the element of a one-element array
CanFloat(a) == Size(a) = 1
Float(a) == PyFloat(a.data[1])

\* ---------------------------------------------------------------- dm_to_dist
\* lines 103-107
DmToDistPrepWrongDir(t) ==
    /\ pc[t] = "f103"
    /\ dm' = [dm EXCEPT ![t] = ZerosLike(NpArrayFloat32(Param(t, 3)))]
    /\ dist' = [dist EXCEPT ![t] = NpArrayFloat32(Param(t, 3))]
    /\ l_rad' = [l_rad EXCEPT ![t] = Deg2Rad(Param(t, 1))]
    /\ b_rad' = [b_rad EXCEPT ![t] = Deg2Rad(Param(t, 2))]
    /\ ndir' = [ndir EXCEPT ![t] = -1]
    /\ pc' = [pc EXCEPT ![t] = "f108"]
    /\ UNCHANGED <<cwd, setup, call, wrapperLocals, exc, fObserved, smtau, ne_out,
                   ext_log, overlapped, td>>

DmToDistPrep(t) ==
    /\ pc[t] = "f103"
    /\ dm' = [dm EXCEPT ![t] = NpArrayFloat32(Param(t, 3))]
    /\ dist' = [dist EXCEPT ![t] = ZerosLike(NpArrayFloat32(Param(t, 3)))]
    /\ l_rad' = [l_rad EXCEPT ![t] = Deg2Rad(Param(t, 1))]
    /\ b_rad' = [b_rad EXCEPT ![t] = Deg2Rad(Param(t, 2))]
    /\ ndir' = [ndir EXCEPT ![t] = 1]
    /\ pc' = [pc EXCEPT ![t] = "f108"]
    /\ UNCHANGED <<cwd, setup, call, wrapperLocals, exc, fObserved, smtau, ne_out,
                   ext_log, overlapped, td>>

\* line 108
DmToDistCall(t) ==
    /\ pc[t] = "f108"
    /\ DmdsmCall(t, <<l_rad[t], b_rad[t], ndir[t], dm[t], dist[t]>>, "f110")
    /\ UNCHANGED <<cwd, setup, call, wrapperLocals, fObserved, l_rad, b_rad, ndir,
                   ne_out, overlapped, td>>

\* line 110: return float(dist) * u.kpc, smtau * u.s
DmToDistRetPerElement(t) ==
    /\ pc[t] = "f110"
    /\ LET v == PyTuple(<<Quantity(dist[t], "kpc"),
                          Quantity(PyFloat(smtau[t]), "s")>>)
       IN  /\ f_ret' = [f_ret EXCEPT ![t] = v]
           /\ r' = [r EXCEPT ![t] = v]
           /\ pc' = [pc EXCEPT ![t] = "l90"]
           /\ UNCHANGED exc
    /\ UNCHANGED <<cwd, setup, call, cwdpath, result, f_args, f_kwargs, fcalls,
                   fLocals, ext_log, overlapped, td>>

DmToDistRet(t) ==
    /\ pc[t] = "f110"
    /\ IF CanFloat(dist[t])
       THEN LET v == PyTuple(<<Quantity(Float(dist[t]), "kpc"),
                               Quantity(PyFloat(smtau[t]), "s")>>)
            IN  /\ f_ret' = [f_ret EXCEPT ![t] = v]
                /\ r' = [r EXCEPT ![t] = v]
                /\ pc' = [pc EXCEPT ![t] = "l90"]
                /\ UNCHANGED exc
       ELSE /\ Raise(t, "TypeError")
            /\ UNCHANGED <<f_ret, r>>
    /\ UNCHANGED <<cwd, setup, call, cwdpath, result, f_args, f_kwargs, fcalls,
                   fLocals, ext_log, overlapped, td>>

\* ---------------------------------------------------------------- dist_to_dm
\* lines 121-125
DistToDmPrep(t) ==
    /\ pc[t] = "f121"
    /\ dist' = [dist EXCEPT ![t] = NpArrayFloat32(Param(t, 3))]
    /\ dm' = [dm EXCEPT ![t] = ZerosLike(NpArrayFloat32(Param(t, 3)))]
    /\ l_rad' = [l_rad EXCEPT ![t] = Deg2Rad(Param(t, 1))]
    /\ b_rad' = [b_rad EXCEPT ![t] = Deg2Rad(Param(t, 2))]
    /\ ndir' = [ndir EXCEPT ![t] = -1]
    /\ pc' = [pc EXCEPT ![t] = "f126"]
    /\ UNCHANGED <<cwd, setup, call, wrapperLocals, exc, fObserved, smtau, ne_out,
                   ext_log, overlapped, td>>

\* line 126
DistToDmCall(t) ==
    /\ pc[t] = "f126"
    /\ DmdsmCall(t, <<l_rad[t], b_rad[t], ndir[t], dm[t], dist[t]>>, "f128")
    /\ UNCHANGED <<cwd, setup, call, wrapperLocals, fObserved, l_rad, b_rad, ndir,
                   ne_out, overlapped, td>>

\* line 128: return float(dm) * u.pc / u.cm**3, smtau * u.s
DistToDmRet(t) ==
    /\ pc[t] = "f128"
    /\ IF CanFloat(dm[t])
       THEN LET v == PyTuple(<<Quantity(Float(dm[t]), "pc/cm3"),
                               Quantity(PyFloat(smtau[t]), "s")>>)
            IN  /\ f_ret' = [f_ret EXCEPT ![t] = v]
                /\ r' = [r EXCEPT ![t] = v]
                /\ pc' = [pc EXCEPT ![t] = "l90"]
                /\ UNCHANGED exc
       ELSE /\ Raise(t, "TypeError")
            /\ UNCHANGED <<f_ret, r>>
    /\ UNCHANGED <<cwd, setup, call, cwdpath, result, f_args, f_kwargs, fcalls,
                   fLocals, ext_log, overlapped, td>>

\* -------------------------------------------- calculate_electron_density_xyz
\* line 140: ne_out = density.density_2001(x, y, z)
DensityCall(t) ==
    /\ pc[t] = "f140"
    /\ \E ret \in DensityReturns :
          /\ ext_log' = [ext_log EXCEPT ![t] = Append(@,
                 [routine |-> "density_2001",
                  args |-> <<Param(t, 1), Param(t, 2), Param(t, 3)>>,
                  cwd |-> cwd, raised |-> FALSE, ret |-> ret,
                  dmpsr |-> NoValue, dist |-> NoValue])]
          /\ ne_out' = [ne_out EXCEPT ![t] = ret]
    /\ pc' = [pc EXCEPT ![t] = "f141"]
    /\ UNCHANGED <<cwd, setup, call, wrapperLocals, exc, fObserved, dm, dist, l_rad,
                   b_rad, ndir, smtau, overlapped, td>>

\* line 141: return np.sum(ne_out[:7]) / u.cm**3
DensityRet(t) ==
    /\ pc[t] = "f141"
    /\ LET v == PyQuantity(Quantity(PyFloat(SumFirstSeven(ne_out[t])), "1/cm3"))
       IN  /\ f_ret' = [f_ret EXCEPT ![t] = v]
           /\ r' = [r EXCEPT ![t] = v]
    /\ pc' = [pc EXCEPT ![t] = "l90"]
    /\ UNCHANGED <<cwd, setup, call, cwdpath, result, exc, f_args, f_kwargs, fcalls,
                   fLocals, ext_log, overlapped, td>>

\* --------------------------------------------------------------- test_density
\* lines 163-171: the grid is allocated and the loops start
TestDensity(t) ==
    /\ pc[t] \in Rest
    /\ calls_left[t] > 0
    /\ calls_left' = [calls_left EXCEPT ![t] = @ - 1]
    /\ call' = [call EXCEPT ![t] = [fn |-> "test_density", args |-> <<>>, kwargs |-> {}]]
    /\ td' = [td EXCEPT ![t] = NoTd]
    /\ result' = [result EXCEPT ![t] = PyNone]
    /\ exc' = [exc EXCEPT ![t] = ""]
    /\ ext_log' = [ext_log EXCEPT ![t] = <<>>]
    /\ pc' = [pc EXCEPT ![t] = "td172"]
    /\ overlapped' = (overlapped \/ \E u \in Threads \ {t} : pc[u] \notin Rest)
    /\ UNCHANGED <<cwd, cwd0, callset, cwdpath, r, fObserved, fLocals>>

\* lines 172-185: one cell of the grid (line 175 looks the name density_xyz up
\* in the module's globals), or, the loops over, the plot
TestDensityStep(t) ==
    /\ pc[t] = "td172"
    /\ IF td[t].ii < Nx
       THEN IF "density_xyz" \in ModuleGlobals
            THEN /\ td' = [td EXCEPT ![t] =
                        [ii |-> IF @.jj + 1 = Ny THEN @.ii + 1 ELSE @.ii,
                         jj |-> IF @.jj + 1 = Ny THEN 0 ELSE @.jj + 1,
                         filled |-> @.filled + 1,
                         saved |-> FALSE]]
                 /\ UNCHANGED <<pc, exc>>
            ELSE /\ Raise(t, "NameError")
                 /\ UNCHANGED td
       ELSE /\ td' = [td EXCEPT ![t].saved = TRUE]
            /\ pc' = [pc EXCEPT ![t] = "returned"]
            /\ UNCHANGED exc
    /\ UNCHANGED <<cwd, setup, call, wrapperLocals, fObserved, fLocals, ext_log,
                   overlapped>>

\* -------------------------------------------------------------- specification
Next ==
    \E t \in Threads :
        \/ Call(t)
        \/ GetCwd(t)
        \/ ChdirPkg(t)
        \/ InvokeF(t)
        \/ DmToDistPrep(t)
        \/ DmToDistCall(t)
        \/ DmToDistRet(t)
        \/ DistToDmPrep(t)
        \/ DistToDmCall(t)
        \/ DistToDmRet(t)
        \/ DensityCall(t)
        \/ DensityRet(t)
        \/ Restore(t)
        \/ Return(t)
        \/ TestDensity(t)
        \/ TestDensityStep(t)

Spec == Init /\ [][Next]_vars

SpecConc == InitConc /\ [][Next]_vars

\* ------------------------------------------------------------------ claims
DmFns == {"dm_to_dist", "dist_to_dm"}
Finished(t) == pc[t] \in {"returned", "raised"}
InBody(t) == pc[t] \in {"f103", "f108", "f110", "f121", "f126", "f128", "f140", "f141"}

\* the i-th argument as the caller wrote it, positionally or by keyword
CallerArg(t, i) ==
    IF i <= Len(call[t].args) THEN call[t].args[i]
    ELSE (CHOOSE p \in call[t].kwargs : p[1] = ParamNames(call[t].fn)[i])[2]

\* C1: when a call of a wrapped function exits, by returning or by raising, the
\* working directory is the one the call found (saved at line 87).
C1_CwdRestoredOnEveryExit ==
    \A t \in Threads :
        (call[t].fn \in Wrapped /\ Finished(t)) => cwd = cwdpath[t]

\* C2: a wrapped call that returns hands the caller exactly what f returned, f
\* having been invoked once with the caller's positional and keyword arguments.
C2_ReturnsWhatFReturned ==
    \A t \in Threads :
        (call[t].fn \in Wrapped /\ pc[t] = "returned") =>
            /\ result[t] = f_ret[t]
            /\ result[t].kind # "None"
            /\ fcalls[t] = 1
            /\ f_args[t] = call[t].args
            /\ f_kwargs[t] = call[t].kwargs

C2_Witness ==
    \E t \in Threads :
        /\ call[t].fn = "dist_to_dm"
        /\ pc[t] = "returned"
        /\ call[t].kwargs # {}
        /\ result[t].kind = "tuple"
        /\ result[t] = f_ret[t]

\* C3: with a single caller, an external routine runs only in DATA_PATH: no
\* external call is made before line 88 has changed the directory, the body of
\* f runs in DATA_PATH, and line 90 restores only after the external call.
C3_ExternalRunsInDataPath ==
    \A t \in Threads :
        /\ \A i \in 1..Len(ext_log[t]) : ext_log[t][i].cwd = DATA_PATH
        /\ pc[t] \in {"l87", "l88", "l89"} => ext_log[t] = <<>>
        /\ InBody(t) => cwd = DATA_PATH
        /\ pc[t] = "l90" => (cwd = DATA_PATH /\ Len(ext_log[t]) = 1)
        /\ (call[t].fn \in Wrapped /\ pc[t] = "returned") => Len(ext_log[t]) = 1

C3_Witness ==
    \E t \in Threads :
        /\ call[t].fn \in Wrapped
        /\ pc[t] = "returned"
        /\ cwd0 # DATA_PATH
        /\ cwd = cwd0
        /\ Len(ext_log[t]) = 1
        /\ ext_log[t][1].cwd = DATA_PATH

\* C4: dm_to_dist calls dmdsm with ndir = 1, the caller's dm (as a float32
\* array) in the fourth position and a zeroed buffer of the same shape in the
\* fifth, and returns (what the fifth buffer holds after the call, the third
\* output); dist_to_dm calls it with ndir = -1, a zeroed buffer in the fourth
\* position and the caller's dist in the fifth, and returns (what the fourth
\* buffer holds after the call, the third output).
C4_DirectionAndBuffers ==
    \A t \in Threads :
        (call[t].fn \in DmFns /\ ext_log[t] # <<>>) =>
            LET e == ext_log[t][1]
                given == CallerArg(t, 3)
                fwd == call[t].fn = "dm_to_dist"
                inbuf == IF fwd THEN e.args[4] ELSE e.args[5]
                zerobuf == IF fwd THEN e.args[5] ELSE e.args[4]
                outbuf == IF fwd THEN e.dist ELSE e.dmpsr
            IN  /\ e.routine = "dmdsm"
                /\ e.args[3] = (IF fwd THEN 1 ELSE -1)
                /\ Len(inbuf.data) = Len(given.data)
                /\ \A i \in 1..Len(given.data) :
                      /\ inbuf.data[i] = Float32(given.data[i])
                      /\ Abs(given.data[i]) <= F32Mantissa => inbuf.data[i] = given.data[i]
                /\ Len(zerobuf.data) = Len(given.data)
                /\ \A i \in 1..Len(zerobuf.data) : zerobuf.data[i] = 0
                /\ pc[t] = "returned" =>
                      /\ result[t].kind = "tuple"
                      /\ Len(result[t].items) = 2
                      /\ result[t].items[1].value = PyFloat(outbuf.data[1])
                      /\ result[t].items[2].value = PyFloat(e.ret[3])

C4_Witness ==
    \E t \in Threads :
        /\ call[t].fn = "dm_to_dist"
        /\ pc[t] = "returned"
        /\ ext_log[t][1].args[3] = 1
        /\ ext_log[t][1].args[4].data = <<10>>
        /\ ext_log[t][1].args[5].data = <<0>>
        /\ ext_log[t][1].dist.data = <<3>>
        /\ ext_log[t][1].ret[3] = 6
        /\ result[t].items[1].value = PyFloat(3)
        /\ result[t].items[2].value = PyFloat(6)

\* C5: dmdsm receives l in radians first and b in radians second: each is the
\* caller's angle times pi/180, and l = 180 degrees arrives as pi.
C5_AnglesInRadians ==
    \A t \in Threads :
        (call[t].fn \in DmFns /\ ext_log[t] # <<>>) =>
            LET e == ext_log[t][1]
                l == CallerArg(t, 1)
                b == CallerArg(t, 2)
            IN  /\ e.args[1].den > 0
                /\ e.args[1].num * 180 = l * e.args[1].den
                /\ e.args[2].den > 0
                /\ e.args[2].num * 180 = b * e.args[2].den
                /\ l = 180 => e.args[1] = Pi

C5_Witness ==
    \E t \in Threads :
        /\ call[t].fn \in DmFns
        /\ ext_log[t] # <<>>
        /\ CallerArg(t, 1) = 180
        /\ CallerArg(t, 2) = 45
        /\ ext_log[t][1].args[1] = Pi
        /\ ext_log[t][1].args[2] = [num |-> 1, den |-> 4]

\* C6: calculate_electron_density_xyz calls density_2001 once with (x, y, z) in
\* that order and returns the sum of its outputs 1 to 7, whatever outputs 8 to
\* 23 are.
C6_SumOfFirstSeven ==
    \A t \in Threads :
        call[t].fn = "calculate_electron_density_xyz" =>
            /\ Len(ext_log[t]) <= 1
            /\ \A i \in 1..Len(ext_log[t]) :
                  /\ ext_log[t][i].routine = "density_2001"
                  /\ ext_log[t][i].args = <<CallerArg(t, 1), CallerArg(t, 2), CallerArg(t, 3)>>
            /\ pc[t] = "returned" =>
                  /\ Len(ext_log[t]) = 1
                  /\ result[t].kind = "Quantity"
                  /\ LET o == ext_log[t][1].ret
                     IN  result[t].items[1].value =
                             PyFloat(o[1] + o[2] + o[3] + o[4] + o[5] + o[6] + o[7])

C6_Witness ==
    \E t \in Threads :
        /\ call[t].fn = "calculate_electron_density_xyz"
        /\ pc[t] = "returned"
        /\ ext_log[t][1].args = <<1, 0, 0>>
        /\ ext_log[t][1].ret[8] = 8
        /\ result[t].items[1].value = PyFloat(28)

\* C8: two callers at once.  Both calls having returned, the working directory
\* can differ from the one before either started, and an external routine can
\* have run outside DATA_PATH (the witness); either happens only when the two
\* calls overlapped, and the directory left behind is then DATA_PATH.
C8_OnlyOverlapBreaksRestore ==
    /\ ((\A t \in Threads : pc[t] = "returned") /\ cwd # cwd0) =>
           (overlapped /\ cwd = DATA_PATH /\ \E t \in Threads : cwdpath[t] = DATA_PATH)
    /\ \A t \in Threads :
           \A i \in 1..Len(ext_log[t]) :
               ext_log[t][i].cwd # DATA_PATH => overlapped

C8_Witness ==
    /\ \A t \in Threads : call[t].fn \in Wrapped /\ pc[t] = "returned"
    /\ cwd # cwd0
    /\ \E t \in Threads : ext_log[t][1].cwd # DATA_PATH

\* C9: test_density, when it ends, has filled all Nx * Ny cells and saved the
\* image.
C9_EveryCellFilled ==
    \A t \in Threads :
        (call[t].fn = "test_density" /\ Finished(t)) =>
            (td[t].filled = Nx * Ny /\ td[t].saved)

\* C10: a call of dm_to_dist or dist_to_dm that has ended made exactly one call
\* of dmdsm; if it returned, its input held one value and its first result is
\* one float; a float input always returns; an input of several values never
\* returns a result.
C10_OnePointPerCall ==
    \A t \in Threads :
        (call[t].fn \in DmFns /\ Finished(t)) =>
            LET given == CallerArg(t, 3)
            IN  /\ Len(ext_log[t]) = 1
                /\ pc[t] = "returned" =>
                      /\ Len(given.data) = 1
                      /\ result[t].items[1].value.kind = "float"
                      /\ Len(result[t].items[1].value.data) = 1
                /\ given.kind = "float" => pc[t] = "returned"
                /\ Len(given.data) > 1 => pc[t] = "raised"

C10_Witness ==
    \E t \in Threads :
        /\ call[t].fn = "dm_to_dist"
        /\ pc[t] = "raised"
        /\ exc[t] = "TypeError"
        /\ CallerArg(t, 3) = PyList(<<10, 20>>)
        /\ Len(ext_log[t]) = 1
        /\ ext_log[t][1].args[4].data = <<10, 20>>

====
